---------------------------- MODULE Spec2Model ----------------------------
(***************************************************************************)
(* A model of lib/sync.js: one polling cycle of the Highrise -> Slack      *)
(* bridge, sync(lastCheck, cb), together with its environment (the CRM,    *)
(* the replies of the HTTP calls, and the caller that threads the          *)
(* checkpoint from one cycle into the next).                               *)
(*                                                                         *)
(* Every asynchronous callback of the source is one action.  An argument   *)
(* list of a node-style callback is a tuple: cb() is <<>>, cb(err) is      *)
(* <<err>>, and cb(null, v) is <<"null", v>>.                              *)
(***************************************************************************)
EXTENDS Integers, Sequences, FiniteSets

VARIABLES
    config,        \* the module-level config object (groups, showEveryone)
    crm,           \* the recordings held by the CRM, in the order it lists them
    touched,       \* the CRM changed since the start of the latest cycle
    checkpoint,    \* the caller's checkpoint, handed to the next sync call
    cycles,        \* number of sync calls made so far
    pc,            \* where the latest sync call is: "idle", "list" or "series"
    lastCheck,     \* the lastCheck argument of the latest sync call
    data,          \* the array the list fetch called back with
    filteredData,  \* data.filter(filterRecord).sort(cmp('createdAt'))
    current,       \* run-series: index of the task that is running
    pipes,         \* per task of the series: the closure of its sendWebhook call
    listErr,       \* the err argument of the list fetch's callback ("" before it)
    cbLog,         \* argument lists the latest sync call passed to its cb
    posts,         \* every webhook POST issued so far: [cycle, id]
    prev           \* summary of the cycles before the latest one: of the one
                   \* just before it ran, lastCheck, cbLog, touched; of all of
                   \* them okCycles, the cycles that called back without an
                   \* error, and dropped, the ids of the recordings such a
                   \* cycle skipped

vars == <<config, crm, touched, checkpoint, cycles, pc, lastCheck, data,
          filteredData, current, pipes, listErr, cbLog, posts, prev>>

-----------------------------------------------------------------------------
(* Bounds of the model. *)

MaxTime == 2      \* timestamps range over 0..MaxTime
MaxRecs == 2      \* the CRM holds at most MaxRecs recordings
MaxCycles == 2    \* the caller makes at most MaxCycles sync calls

Times == 0..MaxTime

-----------------------------------------------------------------------------
(* Values. *)

null == "null"

Types == {"email", "note", "comment", "call"}
Visibilities == {"Everyone", "Owner"}
GroupIds == {1, 2}
SubjectTypes == {"Party", "Deal", "Kase", "Lead"}

\* The CRM stamps a recording's updatedAt when it is created and again at
\* every change, so no recording is updated before it was created.
Stamps == {st \in [createdAt : Times, updatedAt : Times] :
              st.createdAt <= st.updatedAt}

Recording(id, type, visibleTo, groupId, st, subjectType) ==
    [id |-> id, type |-> type, visibleTo |-> visibleTo, groupId |-> groupId,
     createdAt |-> st.createdAt, updatedAt |-> st.updatedAt,
     subjectType |-> subjectType]

\* Every recording the CRM can hold, over all values of the fields sync reads.
AllRecordings ==
    {Recording(1, ty, vi, gr, st, su) :
        ty \in Types, vi \in Visibilities, gr \in GroupIds, st \in Stamps,
        su \in SubjectTypes}

\* The recordings of the multi-recording runs: the fields that only the
\* filter's visibility rule reads are fixed, the timestamps are free.
TimedRecordings(id) ==
    {Recording(id, ty, "Everyone", 1, st, "Party") :
        ty \in {"email", "note", "call"}, st \in Stamps}

Configs == [groups : {<<0>>, <<1>>}, showEveryone : BOOLEAN]

\* var recordingTypes = {email: ..., note: ..., comment: ...}; its keys in order.
recordingTypes == <<"email", "note", "comment">>

-----------------------------------------------------------------------------
(* Pure helpers of the source. *)

\* Array.prototype.includes
includes(arr, x) == \E k \in 1..Len(arr) : arr[k] = x

\* Array.prototype.indexOf, zero-based, -1 when absent
indexOf(arr, x) ==
    IF includes(arr, x)
    THEN (CHOOSE k \in 1..Len(arr) :
              arr[k] = x /\ \A j \in 1..(k - 1) : arr[j] # x) - 1
    ELSE -1

\* filterRecord with >= for > in the recency test
filterRecord_inclusive(record) ==
    /\ includes(recordingTypes, record.type)
    /\ \/ (record.visibleTo = "Everyone" /\ config.showEveryone)
       \/ indexOf(config.groups, record.groupId) > -1
    /\ record.createdAt >= lastCheck

\* filterRecord with || for && in the visible-to-everyone test
filterRecord_anyVisible(record) ==
    /\ includes(recordingTypes, record.type)
    /\ \/ (record.visibleTo = "Everyone" \/ config.showEveryone)
       \/ indexOf(config.groups, record.groupId) > -1
    /\ record.createdAt > lastCheck

\* filterRecord testing the time of the last update: updatedAt for createdAt
filterRecord_updated(record) ==
    /\ includes(recordingTypes, record.type)
    /\ \/ record.visibleTo = "Everyone" /\ config.showEveryone
       \/ indexOf(config.groups, record.groupId) > -1
    /\ record.updatedAt > lastCheck

\* filterRecord without the recency test
filterRecord_noSince(record) ==
    /\ includes(recordingTypes, record.type)
    /\ \/ (record.visibleTo = "Everyone" /\ config.showEveryone)
       \/ indexOf(config.groups, record.groupId) > -1

\* filterRecord closes over the lastCheck argument of the running sync call.
filterRecord(record) ==
    /\ includes(recordingTypes, record.type)
    /\ \/ (record.visibleTo = "Everyone" /\ config.showEveryone)
       \/ indexOf(config.groups, record.groupId) > -1
    /\ record.createdAt > lastCheck

\* cmp with the two results exchanged: a descending order
cmp_desc(prop, a, b) ==
    IF a[prop] > b[prop] THEN -1 ELSE IF a[prop] < b[prop] THEN 1 ELSE 0

cmp(prop, a, b) ==
    IF a[prop] > b[prop] THEN 1 ELSE IF a[prop] < b[prop] THEN -1 ELSE 0

Front(s) == SubSeq(s, 1, Len(s) - 1)
Last(s) == s[Len(s)]

\* Array.prototype.sort with the comparator cmp(prop): a stable sort.
RECURSIVE insert(_, _, _)
insert(prop, s, x) ==
    IF s = <<>> THEN <<x>>
    ELSE IF cmp(prop, Last(s), x) > 0
         THEN Append(insert(prop, Front(s), x), Last(s))
         ELSE Append(s, x)

RECURSIVE sort(_, _)
sort(s, prop) ==
    IF s = <<>> THEN <<>> ELSE insert(prop, sort(Front(s), prop), Last(s))

\* Array.prototype.filter with filterRecord
filter(s) == SelectSeq(s, filterRecord)

getSubjectPath(type) ==
    CASE type = "Party" -> "people"
      [] type = "Deal" -> "deals"
      [] type = "Kase" -> "kases"
      [] OTHER -> "people"

\* simpleParser is only reached for recordings that are not notes.
parsesMime(recording) == recording.type # "note"


-----------------------------------------------------------------------------
(* The CRM client's list call, client.get('recordings.xml', {since}).  The  *)
(* client lives outside lib/sync.js; all that is assumed of a successful    *)
(* reply is that it lists, in the CRM's order, every recording updated      *)
(* after `since`, and possibly others.                                      *)

RECURSIVE pick(_, _)
pick(s, keep) ==
    IF s = <<>> THEN <<>>
    ELSE IF Len(s) \in keep
         THEN Append(pick(Front(s), keep), Last(s))
         ELSE pick(Front(s), keep)

recordingsSince(since) ==
    {pick(crm, keep) : keep \in
        {k \in SUBSET (1..Len(crm)) :
            \A i \in 1..Len(crm) : crm[i].updatedAt > since => i \in k}}

-----------------------------------------------------------------------------
(* The closure of one sendWebhook(recording, cb) call. *)

\* a task of the series that has not been started
\* author, subject, parse, post: "idle", "inflight", "ok" or "error"
\* path: the collection the subject fetch in flight (or the last one) went to
\* gets: the collections fetched for the subject, in order
\* replies: the err arguments the subject fetches called back with, in order
\* called, cbArgs: whether once(cb) has fired, and with which arguments
idleTask ==
    [author |-> "idle", subject |-> "idle", path |-> "", gets |-> <<>>,
     replies |-> <<>>, pending |-> 0, called |-> FALSE, cbArgs |-> <<>>,
     parse |-> "idle", post |-> "idle"]

\* lines 70-90: cb = once(cb), pending = 2, both fetches issued
sendWebhook(recording) ==
    [author |-> "inflight", subject |-> "inflight",
     path |-> getSubjectPath(recording.subjectType),
     gets |-> <<getSubjectPath(recording.subjectType)>>,
     replies |-> <<>>, pending |-> 2, called |-> FALSE, cbArgs |-> <<>>,
     parse |-> "idle", post |-> "idle"]

-----------------------------------------------------------------------------
(* Steps shared by the callbacks.  Each gives the next value of             *)
(* pipes, posts, current, data, cbLog, checkpoint and pc.                   *)

\* sync's cb(args), and the caller, which keeps the checkpoint it is handed
callback(args) ==
    /\ cbLog' = Append(cbLog, args)
    /\ checkpoint' = IF args[1] = null THEN args[2] ELSE checkpoint
    /\ pc' = "idle"

\* done taking the first element of the sorted array instead of the last
done_first(err) ==
    IF err # null
    THEN /\ callback(<<err>>)
         /\ data' = data
    ELSE /\ data' = sort(data, "updatedAt")
         /\ callback(<<null, sort(data, "updatedAt")[1].updatedAt>>)

\* done taking the checkpoint from filteredData instead of data
done_filtered(err) ==
    IF err # null
    THEN /\ callback(<<err>>)
         /\ data' = data
    ELSE /\ data' = data
         /\ callback(<<null, Last(sort(filteredData, "updatedAt")).updatedAt>>)

\* done handing back the checkpoint it was called with
done_unchanged(err) ==
    IF err # null
    THEN /\ callback(<<err>>)
         /\ data' = data
    ELSE /\ data' = sort(data, "updatedAt")
         /\ callback(<<null, lastCheck>>)

\* lines 50-54: the callback sync gives to run-series
done(err) ==
    IF err # null
    THEN /\ callback(<<err>>)
         /\ data' = data
    ELSE /\ data' = sort(data, "updatedAt")
         /\ callback(<<null, Last(sort(data, "updatedAt")).updatedAt>>)

\* run-series: a task called back with err; stop on an error or after the
\* last task, start the next task otherwise
each(p, err) ==
    /\ current' = current + 1
    /\ IF current + 1 > Len(filteredData) \/ err # null
       THEN /\ pipes' = p
            /\ done(err)
       ELSE /\ pipes' = [p EXCEPT ![current + 1] =
                            sendWebhook(filteredData[current + 1])]
            /\ UNCHANGED <<data, cbLog, checkpoint, pc>>

\* a callback that only writes to its own closure
local(p) ==
    /\ pipes' = p
    /\ UNCHANGED <<posts, current, data, cbLog, checkpoint, pc>>

\* the cb of task i without once: every call goes through to run-series
cbOnce_twice(p, i, args) ==
    /\ each([p EXCEPT ![i].called = TRUE, ![i].cbArgs = args],
            IF args = <<>> THEN null ELSE args[1])
    /\ posts' = posts

\* the once-wrapped cb of task i, called with args
cbOnce(p, i, args) ==
    IF p[i].called
    THEN local(p)
    ELSE /\ each([p EXCEPT ![i].called = TRUE, ![i].cbArgs = args],
                 IF args = <<>> THEN null ELSE args[1])
         /\ posts' = posts

\* lines 102-107: request({url: config.slackUrl, method: 'POST', ...}, cb)
post(p, i) ==
    /\ pipes' = [p EXCEPT ![i].post = "inflight"]
    /\ posts' = Append(posts, [cycle |-> cycles, id |-> filteredData[i].id])
    /\ UNCHANGED <<current, data, cbLog, checkpoint, pc>>

\* lines 100-101 with formatWebhook and parseBody: a note is formatted at
\* once, any other body goes through simpleParser first
formatWebhook(p, i) ==
    IF parsesMime(filteredData[i])
    THEN local([p EXCEPT ![i].parse = "inflight"])
    ELSE post(p, i)

\* done(err) of sendWebhook without the join: formats on the first success
doneWebhook_race(p, i, err) ==
    IF err # null
    THEN cbOnce(p, i, <<>>)
    ELSE formatWebhook([p EXCEPT ![i].pending = @ - 1], i)

\* done(err) of sendWebhook calling back after the first success already:
\* return cb() for return at the pending test
doneWebhook_early(p, i, err) ==
    IF err # null
    THEN cbOnce(p, i, <<>>)
    ELSE IF p[i].pending - 1 > 0
         THEN cbOnce([p EXCEPT ![i].pending = @ - 1], i, <<>>)
         ELSE formatWebhook([p EXCEPT ![i].pending = @ - 1], i)

\* done(err) of sendWebhook handing the error on: cb(err) for cb()
doneWebhook_propagate(p, i, err) ==
    IF err # null
    THEN cbOnce(p, i, <<err>>)
    ELSE IF p[i].pending - 1 > 0
         THEN local([p EXCEPT ![i].pending = @ - 1])
         ELSE formatWebhook([p EXCEPT ![i].pending = @ - 1], i)

\* lines 91-109: done(err) of sendWebhook
doneWebhook(p, i, err) ==
    IF err # null
    THEN cbOnce(p, i, <<>>)
    ELSE IF p[i].pending - 1 > 0
         THEN local([p EXCEPT ![i].pending = @ - 1])
         ELSE formatWebhook([p EXCEPT ![i].pending = @ - 1], i)

-----------------------------------------------------------------------------
(* Actions. *)

\* The caller calls sync(checkpoint, cb); line 28 issues the list fetch.
\* The closures of the cycle before are forgotten here: a fetch of theirs
\* that is still in flight belongs to a task that has already called back,
\* and its reply can only write to that task's own closure.
Sync ==
    /\ pc = "idle"
    /\ cycles < MaxCycles
    /\ cycles' = cycles + 1
    /\ lastCheck' = checkpoint
    /\ prev' = [ran |-> cycles > 0, lastCheck |-> lastCheck, cbLog |-> cbLog,
                touched |-> touched,
                okCycles |-> IF cbLog # <<>> /\ cbLog[1][1] = null
                             THEN prev.okCycles \cup {cycles}
                             ELSE prev.okCycles,
                dropped |-> IF cbLog # <<>> /\ cbLog[1][1] = null
                            THEN prev.dropped \cup
                                     {filteredData[i].id :
                                         i \in {j \in DOMAIN pipes :
                                                   /\ pipes[j].called
                                                   /\ pipes[j].cbArgs = <<>>}}
                            ELSE prev.dropped]
    /\ touched' = FALSE
    /\ pc' = "list"
    /\ listErr' = ""
    /\ cbLog' = <<>>
    /\ data' = <<>>
    /\ filteredData' = <<>>
    /\ current' = 0
    /\ pipes' = <<>>
    /\ UNCHANGED <<config, crm, checkpoint, posts>>

\* the list error swallowed: cb(null, lastCheck) for cb(err)
ListError_swallow(err) ==
    /\ pc = "list"
    /\ listErr' = err
    /\ callback(<<null, lastCheck>>)
    /\ UNCHANGED <<config, crm, touched, cycles, lastCheck, prev, data,
                   filteredData, current, pipes, posts>>

\* line 29: the list fetch failed
ListError(err) ==
    /\ pc = "list"
    /\ listErr' = err
    /\ callback(<<err>>)
    /\ UNCHANGED <<config, crm, touched, cycles, lastCheck, prev, data,
                   filteredData, current, pipes, posts>>

\* ListData without the early return of lines 40-44: the empty series ends
\* at once and the checkpoint is taken from data
ListData_advance(d) ==
    /\ pc = "list"
    /\ listErr' = null
    /\ data' = d
    /\ filteredData' = sort(filter(d), "createdAt")
    /\ IF Len(filter(d)) = 0
       THEN /\ callback(<<null, IF d = <<>> THEN lastCheck
                                ELSE Last(sort(d, "updatedAt")).updatedAt>>)
            /\ UNCHANGED <<current, pipes>>
       ELSE /\ current' = 1
            /\ pipes' = [k \in 1..Len(filter(d)) |->
                            IF k = 1
                            THEN sendWebhook(sort(filter(d), "createdAt")[1])
                            ELSE idleTask]
            /\ pc' = "series"
            /\ UNCHANGED <<cbLog, checkpoint>>
    /\ UNCHANGED <<config, crm, touched, cycles, lastCheck, prev, posts>>

\* ListData with a parallel runner for run-series: every task is started at
\* once
ListData_parallel(d) ==
    /\ pc = "list"
    /\ listErr' = null
    /\ data' = d
    /\ filteredData' = sort(filter(d), "createdAt")
    /\ IF Len(filter(d)) = 0
       THEN /\ callback(<<null, lastCheck>>)
            /\ UNCHANGED <<current, pipes>>
       ELSE /\ current' = 1
            /\ pipes' = [k \in 1..Len(filter(d)) |->
                            sendWebhook(sort(filter(d), "createdAt")[k])]
            /\ pc' = "series"
            /\ UNCHANGED <<cbLog, checkpoint>>
    /\ UNCHANGED <<config, crm, touched, cycles, lastCheck, prev, posts>>

\* lines 30-48: the list fetch called back with the array d
ListData(d) ==
    /\ pc = "list"
    /\ listErr' = null
    /\ data' = d
    /\ filteredData' = sort(filter(d), "createdAt")
    /\ IF Len(filter(d)) = 0
       THEN /\ callback(<<null, lastCheck>>)
            /\ UNCHANGED <<current, pipes>>
       ELSE /\ current' = 1
            /\ pipes' = [k \in 1..Len(filter(d)) |->
                            IF k = 1
                            THEN sendWebhook(sort(filter(d), "createdAt")[1])
                            ELSE idleTask]
            /\ pc' = "series"
            /\ UNCHANGED <<cbLog, checkpoint>>
    /\ UNCHANGED <<config, crm, touched, cycles, lastCheck, prev, posts>>

ListReply ==
    \/ ListError("listError")
    \/ \E d \in recordingsSince(lastCheck) : ListData(d)

frame ==
    <<config, crm, touched, cycles, lastCheck, prev, filteredData, listErr>>

\* lines 73-81: the reply to the fetch of users/<authorId>.xml
AuthorReply(i, err) ==
    /\ pipes[i].author = "inflight"
    /\ IF err # null
       THEN doneWebhook([pipes EXCEPT ![i].author = "error"], i, err)
       ELSE doneWebhook([pipes EXCEPT ![i].author = "ok"], i, null)
    /\ UNCHANGED frame

\* getSubject falling back to companies from every other collection
SubjectReply_alwaysFallback(i, err) ==
    /\ pipes[i].subject = "inflight"
    /\ IF err # null /\ pipes[i].path # "companies"
       THEN local([pipes EXCEPT ![i].path = "companies",
                                ![i].gets = Append(@, "companies"),
                                ![i].replies = Append(@, err)])
       ELSE IF err # null
            THEN doneWebhook([pipes EXCEPT ![i].subject = "error",
                                           ![i].replies = Append(@, err)], i, err)
            ELSE doneWebhook([pipes EXCEPT ![i].subject = "ok",
                                           ![i].replies = Append(@, err)], i, null)
    /\ UNCHANGED frame

\* lines 148-158 and 82-90: the reply to the fetch of <path>/<subjectId>.xml
SubjectReply(i, err) ==
    /\ pipes[i].subject = "inflight"
    /\ IF err # null /\ pipes[i].path = "people"
       THEN local([pipes EXCEPT ![i].path = "companies",
                                ![i].gets = Append(@, "companies"),
                                ![i].replies = Append(@, err)])
       ELSE IF err # null
            THEN doneWebhook([pipes EXCEPT ![i].subject = "error",
                                           ![i].replies = Append(@, err)], i, err)
            ELSE doneWebhook([pipes EXCEPT ![i].subject = "ok",
                                           ![i].replies = Append(@, err)], i, null)
    /\ UNCHANGED frame

\* lines 163-166 and 100-101: simpleParser called back
ParseReply(i, err) ==
    /\ pipes[i].parse = "inflight"
    /\ IF err # null
       THEN cbOnce([pipes EXCEPT ![i].parse = "error"], i, <<err>>)
       ELSE post([pipes EXCEPT ![i].parse = "ok"], i)
    /\ UNCHANGED frame

\* a failed POST skipped like a failed fetch: cb() for cb(err)
PostReply_tolerant(i, err) ==
    /\ pipes[i].post = "inflight"
    /\ IF err # null
       THEN cbOnce([pipes EXCEPT ![i].post = "error"], i, <<>>)
       ELSE cbOnce([pipes EXCEPT ![i].post = "ok"], i, <<null, "response">>)
    /\ UNCHANGED frame

\* line 107: request called the once-wrapped cb back
PostReply(i, err) ==
    /\ pipes[i].post = "inflight"
    /\ IF err # null
       THEN cbOnce([pipes EXCEPT ![i].post = "error"], i, <<err>>)
       ELSE cbOnce([pipes EXCEPT ![i].post = "ok"], i, <<null, "response">>)
    /\ UNCHANGED frame

Replies ==
    \E i \in DOMAIN pipes :
        \/ \E err \in {null, "authorError"} : AuthorReply(i, err)
        \/ \E err \in {null, "subjectError"} : SubjectReply(i, err)
        \/ \E err \in {null, "parseError"} : ParseReply(i, err)
        \/ \E err \in {null, "postError"} : PostReply(i, err)

\* Between two cycles somebody adds a recording to the CRM ...
CrmCreate(r) ==
    /\ pc = "idle"
    /\ Len(crm) < MaxRecs
    /\ crm' = Append(crm, r)
    /\ touched' = TRUE
    /\ UNCHANGED <<config, checkpoint, cycles, pc, lastCheck, data,
                   filteredData, current, pipes, listErr, cbLog, posts, prev>>

\* ... or edits one, which moves its updatedAt forward.
CrmEdit(i, t) ==
    /\ pc = "idle"
    /\ t > crm[i].updatedAt
    /\ crm' = [crm EXCEPT ![i].updatedAt = t]
    /\ touched' = TRUE
    /\ UNCHANGED <<config, checkpoint, cycles, pc, lastCheck, data,
                   filteredData, current, pipes, listErr, cbLog, posts, prev>>

\* Changes that no later cycle of the run would list are left out.
Crm ==
    /\ pc = "idle"
    /\ cycles < MaxCycles
    /\ \/ \E r \in TimedRecordings(Len(crm) + 1) : CrmCreate(r)
       \/ \E i \in DOMAIN crm : \E t \in Times : CrmEdit(i, t)

-----------------------------------------------------------------------------
(* Specifications. *)

Quiet ==
    /\ touched = FALSE
    /\ cycles = 0
    /\ pc = "idle"
    /\ lastCheck = 0
    /\ data = <<>>
    /\ filteredData = <<>>
    /\ current = 0
    /\ pipes = <<>>
    /\ listErr = ""
    /\ cbLog = <<>>
    /\ posts = <<>>
    /\ prev = [ran |-> FALSE, lastCheck |-> 0, cbLog |-> <<>>, touched |-> FALSE,
               okCycles |-> {}, dropped |-> {}]

\* A growing CRM, EVERYONE=true and HIGHRISE_GROUPS unset.
Init ==
    /\ config = [groups |-> <<0>>, showEveryone |-> TRUE]
    /\ crm = <<>>
    /\ checkpoint \in Times
    /\ Quiet

Next == Sync \/ ListReply \/ Replies \/ Crm

Spec == Init /\ [][Next]_vars

\* Every fetch and every POST in flight is answered: the list fetch and the
\* requests of the pipelines call back eventually.
SpecFair == Init /\ [][Next]_vars /\ WF_vars(ListReply) /\ WF_vars(Replies)

\* One recording of any kind under any configuration.
InitOne ==
    /\ config \in Configs
    /\ \E r \in AllRecordings : crm = <<r>>
    /\ checkpoint \in Times
    /\ Quiet

NextOne == Sync \/ ListReply \/ Replies

SpecOne == InitOne /\ [][NextOne]_vars

-----------------------------------------------------------------------------
(* Vocabulary of the properties. *)

\* the latest sync call has called back
Returned == cycles > 0 /\ pc = "idle" /\ cbLog # <<>>

\* ... without an error, with the checkpoint NewCheck
ReturnedOk == Returned /\ cbLog[1][1] = null
NewCheck == cbLog[1][2]

\* the POSTs of the latest cycle, as recording ids in the order of issue
RECURSIVE idsOf(_, _)
idsOf(log, c) ==
    IF log = <<>> THEN <<>>
    ELSE IF Last(log).cycle = c
         THEN Append(idsOf(Front(log), c), Last(log).id)
         ELSE idsOf(Front(log), c)

Posted == idsOf(posts, cycles)

PostedFor(recording) == \E k \in DOMAIN Posted : Posted[k] = recording.id

Max(S) == CHOOSE m \in S : \A x \in S : x <= m

Range(f) == {f[x] : x \in DOMAIN f}

\* task i was skipped because a fetch of its enrichment failed
EnrichFailed(i) == pipes[i].author = "error" \/ pipes[i].subject = "error"

-----------------------------------------------------------------------------
(* C1.  Every sync call that calls back without an error returns a        *)
(* checkpoint greater than or equal to its lastCheck, whichever recordings  *)
(* the list fetch returned.                                                 *)
C1_Monotone == ReturnedOk => NewCheck >= lastCheck

C1_Witness ==
    /\ ReturnedOk
    /\ filteredData # <<>>
    /\ Len(data) > Len(filteredData)
    /\ NewCheck > lastCheck

(* C2.  When the cycle has a candidate and every task of the series called  *)
(* back without an error, sync calls back once, with the greatest updatedAt *)
(* of all the recordings the list fetch returned.                           *)
C2_MaxOverFetch ==
    (/\ pc = "idle"
     /\ pipes # <<>>
     /\ \A i \in DOMAIN pipes :
           pipes[i].called /\ (pipes[i].cbArgs = <<>> \/ pipes[i].cbArgs[1] = null))
    => cbLog = << <<null, Max({data[k].updatedAt : k \in DOMAIN data})>> >>

C2_Witness ==
    /\ ReturnedOk
    /\ Len(filteredData) = 1
    /\ Len(data) = 2
    /\ PostedFor(filteredData[1])
    /\ \E k \in DOMAIN data :
          /\ data[k].id # filteredData[1].id
          /\ data[k].updatedAt > filteredData[1].updatedAt
          /\ NewCheck = data[k].updatedAt

(* C3.  When the list fetch returns no recording, or none that passes the   *)
(* filter, sync calls back once with lastCheck, the caller's checkpoint     *)
(* stays, and the cycle issues no author fetch, no subject fetch and no     *)
(* POST.                                                                    *)
C3_NoCandidates ==
    (Returned /\ listErr = null /\ filter(data) = <<>>)
    => /\ cbLog = << <<null, lastCheck>> >>
       /\ checkpoint = lastCheck
       /\ pipes = <<>>
       /\ Posted = <<>>

C3_Witness ==
    /\ Returned
    /\ listErr = null
    /\ data # <<>>
    /\ filter(data) = <<>>
    /\ \E k \in DOMAIN data : data[k].updatedAt > lastCheck

(* C4.  When a cycle returned c1 without an error, no recording was        *)
(* created or updated since, and the next cycle runs from c1 and gets its   *)
(* listing, that cycle returns c1 again and posts nothing.                  *)
SecondRun ==
    /\ Returned
    /\ listErr = null
    /\ prev.ran
    /\ prev.cbLog[1][1] = null
    /\ ~prev.touched

C4_Idempotent ==
    SecondRun => cbLog = << <<null, prev.cbLog[1][2]>> >> /\ Posted = <<>>

C4_Witness ==
    /\ SecondRun
    /\ prev.cbLog[1][2] > prev.lastCheck
    /\ idsOf(posts, cycles - 1) # <<>>
    /\ data # <<>>

(* C5.  When the list fetch fails, sync calls back once with that error and *)
(* no checkpoint, the caller's checkpoint stays, and the cycle issues no    *)
(* author fetch, no subject fetch and no POST.                              *)
C5_ListError ==
    (cycles > 0 /\ listErr \notin {"", null})
    => /\ cbLog = << <<listErr>> >>
       /\ pc = "idle"
       /\ checkpoint = lastCheck
       /\ pipes = <<>>
       /\ Posted = <<>>

C5_Witness ==
    /\ listErr = "listError"
    /\ crm # <<>>
    /\ \E k \in DOMAIN crm : crm[k].createdAt > lastCheck /\ crm[k].type = "note"

(* C6.  A task whose author fetch or subject fetch (after the fallback)     *)
(* failed calls back without an error and never posts; the series goes on   *)
(* with the next task; and when no task reports an error the cycle calls    *)
(* back without one, with a checkpoint that is not below the updatedAt of   *)
(* the skipped recording.                                                   *)
C6_EnrichSkip ==
    \A i \in DOMAIN pipes :
        EnrichFailed(i) =>
            /\ pipes[i].called
            /\ pipes[i].cbArgs = <<>>
            /\ pipes[i].parse = "idle"
            /\ pipes[i].post = "idle"
            /\ ~PostedFor(filteredData[i])
            /\ i < Len(pipes) => pipes[i + 1].author # "idle"
            /\ (pc = "idle" /\ \A j \in DOMAIN pipes :
                                  pipes[j].cbArgs = <<>> \/ pipes[j].cbArgs[1] = null)
               => /\ ReturnedOk
                  /\ Len(cbLog) = 1
                  /\ NewCheck >= filteredData[i].updatedAt

C6_Witness ==
    /\ ReturnedOk
    /\ Len(pipes) = 2
    /\ pipes[1].author = "error"
    /\ pipes[1].subject = "ok"
    /\ pipes[2].post = "ok"
    /\ Posted = <<filteredData[2].id>>
    /\ NewCheck = filteredData[1].updatedAt
    /\ NewCheck > filteredData[2].updatedAt

(* C7.  The claim: a task whose body parse failed is skipped; the cycle is  *)
(* not aborted, the series goes on with the next task, and sync calls back  *)
(* without an error.                                                        *)
C7_ParseSkip ==
    \A i \in DOMAIN pipes :
        pipes[i].parse = "error" =>
            /\ pipes[i].cbArgs = <<>>
            /\ i < Len(pipes) => pipes[i + 1].author # "idle"
            /\ Returned => cbLog[1][1] # "parseError"

(* C8.  When the POST of a task fails, sync calls back once with that error *)
(* and no checkpoint, no later task is started, and the caller's checkpoint *)
(* stays where it was, also when earlier tasks of the cycle have posted.    *)
C8_PostErrorFatal ==
    \A i \in DOMAIN pipes :
        pipes[i].post = "error" =>
            /\ pc = "idle"
            /\ cbLog = << <<"postError">> >>
            /\ checkpoint = lastCheck
            /\ \A j \in DOMAIN pipes : j > i => pipes[j] = idleTask

C8_Witness ==
    /\ Len(pipes) = 2
    /\ pipes[1].post = "ok"
    /\ pipes[2].post = "error"
    /\ Posted = <<filteredData[1].id, filteredData[2].id>>
    /\ filteredData[1].updatedAt > lastCheck

(* C9.  The recordings that pass the filter are exactly the fetched ones    *)
(* whose type is email, note or comment, that are visible to everyone with  *)
(* showEveryone set or belong to a configured group, and whose createdAt is *)
(* greater than lastCheck; only those are posted.                           *)
Qualifies(r) ==
    /\ r.type \in {"email", "note", "comment"}
    /\ \/ (r.visibleTo = "Everyone" /\ config.showEveryone = TRUE)
       \/ r.groupId \in Range(config.groups)
    /\ r.createdAt > lastCheck

C9_Filter ==
    listErr = null =>
        /\ Range(filteredData) = {r \in Range(data) : Qualifies(r)}
        /\ \A k \in DOMAIN Posted :
              \E r \in Range(data) : r.id = Posted[k] /\ Qualifies(r)

C9_Witness ==
    /\ Returned
    /\ listErr = null
    /\ config.showEveryone
    /\ Len(data) = 1
    /\ data[1].type = "comment"
    /\ data[1].createdAt > lastCheck
    /\ data[1].visibleTo # "Everyone"
    /\ data[1].groupId \notin Range(config.groups)
    /\ filteredData = <<>>
    /\ posts = <<>>

(* C10.  The subject is fetched from the collection its type resolves to.   *)
(* A failed people fetch is followed by exactly one companies fetch, whose  *)
(* outcome is the outcome of the resolution; a failed deals, kases or       *)
(* companies fetch is the outcome at once; at most two fetches are issued.  *)
C10_SubjectFallback ==
    \A i \in DOMAIN pipes :
        pipes[i].gets # <<>> =>
            LET p == pipes[i]
                first == getSubjectPath(filteredData[i].subjectType)
                n == Len(p.replies)
            IN  /\ p.gets \in {<<first>>, <<"people", "companies">>}
                /\ n <= Len(p.gets)
                /\ p.subject = "inflight" <=> n < Len(p.gets)
                /\ (n >= 1 /\ p.replies[1] = null)
                   => p.gets = <<first>> /\ p.subject = "ok"
                /\ (n >= 1 /\ p.replies[1] # null /\ first = "people")
                   => p.gets = <<"people", "companies">>
                /\ (n >= 1 /\ p.replies[1] # null /\ first # "people")
                   => p.gets = <<first>> /\ p.subject = "error"
                /\ n = 2
                   => p.subject = (IF p.replies[2] = null THEN "ok" ELSE "error")

C10_Witness ==
    /\ Len(pipes) = 1
    /\ filteredData[1].subjectType = "Lead"
    /\ pipes[1].gets = <<"people", "companies">>
    /\ pipes[1].replies = <<"subjectError", "subjectError">>
    /\ pipes[1].subject = "error"

-----------------------------------------------------------------------------
(* C11.  Whatever the order in which the author fetch and the subject fetch *)
(* of a recording reply, and whichever of them fail, the formatting and the *)
(* POST of the recording start only after both fetches have succeeded: one  *)
(* success alone, or a success that arrives after the other fetch failed,   *)
(* starts neither.                                                          *)
Formatting(i) ==
    \/ pipes[i].parse # "idle"
    \/ pipes[i].post # "idle"
    \/ PostedFor(filteredData[i])

C11_Join ==
    \A i \in DOMAIN pipes :
        Formatting(i) =>
            /\ pipes[i].author = "ok"
            /\ pipes[i].subject = "ok"
            /\ pipes[i].pending = 0

\* the author fetch failed, the subject fetch succeeded through the
\* companies fallback, and nothing was formatted or posted
C11_Witness ==
    \E i \in DOMAIN pipes :
        /\ pipes[i].author = "error"
        /\ pipes[i].subject = "ok"
        /\ pipes[i].gets = <<"people", "companies">>
        /\ pipes[i].pending = 1
        /\ ~Formatting(i)

-----------------------------------------------------------------------------
(* C12.  As stated: the pipelines of distinct candidates run in parallel,   *)
(* sync starts the pipeline of every candidate without waiting for the      *)
(* pipeline of any other candidate.  The tasks are handed to run-series,    *)
(* which starts a task when the task before it has called back.             *)

\* sendWebhook has been called for task i
Started(i) == pipes[i].author # "idle"

-----------------------------------------------------------------------------
(* C13.  sync hands over a new checkpoint only after the pipeline of every  *)
(* candidate has completed, by a POST that was answered or by a skip; no    *)
(* POST of a candidate is issued after the checkpoint was returned.         *)

\* the pipeline of task i has ended: posted and answered, or skipped
Settled(i) ==
    /\ pipes[i].called
    /\ pipes[i].parse # "inflight"
    /\ \/ pipes[i].post = "ok"
       \/ pipes[i].post = "idle" /\ EnrichFailed(i)

C13_AfterAll ==
    /\ [](ReturnedOk => \A i \in DOMAIN pipes : Settled(i))
    /\ [][posts' # posts => pc = "series" /\ cbLog = <<>>]_vars

\* a cycle of two candidates returned its checkpoint with one candidate
\* posted and the other skipped, a fetch of the skipped one still in flight
C13_Witness ==
    /\ ReturnedOk
    /\ Len(pipes) = 2
    /\ \E i, j \in DOMAIN pipes :
        /\ pipes[i].post = "ok"
        /\ pipes[j].author = "error"
        /\ pipes[j].subject = "inflight"

-----------------------------------------------------------------------------
(* C14.  As stated: after any cycle that calls back without an error, every *)
(* recording that the cycle's list fetch returned, the ones the filter      *)
(* rejected included, has updatedAt <= the returned checkpoint, so that a   *)
(* later cycle using that checkpoint does not fetch them again.             *)
C14_AllBelow ==
    ReturnedOk => \A k \in DOMAIN data : data[k].updatedAt <= NewCheck

(* C14, amended.  After a cycle that had at least one candidate and calls   *)
(* back without an error, every recording that the cycle's list fetch       *)
(* returned, the ones the filter rejected included, has updatedAt <= the    *)
(* returned checkpoint.  A cycle without candidates returns lastCheck, and  *)
(* the recordings it fetched and rejected stay above the checkpoint.        *)
C14_BelowAfterPosting ==
    /\ ReturnedOk /\ filteredData # <<>> =>
           \A k \in DOMAIN data : data[k].updatedAt <= NewCheck
    /\ ReturnedOk /\ filteredData = <<>> => NewCheck = lastCheck

\* a cycle with a candidate returned a checkpoint that covers a rejected
\* recording updated after the cycle's lastCheck
C14_Witness ==
    /\ ReturnedOk
    /\ filteredData # <<>>
    /\ \E k \in DOMAIN data :
        /\ ~filterRecord(data[k])
        /\ data[k].updatedAt > lastCheck
        /\ data[k].updatedAt <= NewCheck

-----------------------------------------------------------------------------
(* C15.  A candidate that was skipped because a fetch of its enrichment     *)
(* failed is dropped for good: when the cycle that skipped it calls back    *)
(* without an error and the caller hands the returned checkpoint to the     *)
(* later cycles, no later cycle posts a webhook for that recording, however *)
(* the recording is edited in between (every recording has createdAt <=     *)
(* updatedAt).                                                              *)
C15_Dropped ==
    \A k \in DOMAIN Posted : Posted[k] \notin prev.dropped

\* a later cycle fetched a dropped recording again, edited since, and
\* posted another recording only
C15_Witness ==
    /\ Returned
    /\ Posted # <<>>
    /\ \E k \in DOMAIN data :
        /\ data[k].id \in prev.dropped
        /\ data[k].updatedAt > lastCheck

-----------------------------------------------------------------------------
(* C16.  Within one cycle the webhook POSTs are issued in non-decreasing    *)
(* order of the recordings' createdAt, recordings of equal createdAt in the *)
(* order in which the list fetch returned them; and the enrichment of a     *)
(* candidate is not started before the pipeline of the candidate before it  *)
(* has called back.                                                         *)

\* the candidate of the latest cycle with this id
candidate(id) ==
    filteredData[CHOOSE i \in DOMAIN filteredData : filteredData[i].id = id]

\* The list fetch returns the recordings in the order of the CRM, and ids
\* number the recordings in that order: a smaller id was fetched first.
C16_Order ==
    /\ \A a, b \in DOMAIN Posted :
           a < b =>
               \/ candidate(Posted[a]).createdAt < candidate(Posted[b]).createdAt
               \/ /\ candidate(Posted[a]).createdAt
                         = candidate(Posted[b]).createdAt
                  /\ Posted[a] < Posted[b]
    /\ \A i \in DOMAIN pipes :
           i > 1 /\ pipes[i].author # "idle" => pipes[i - 1].called

\* two recordings were posted in the reverse of the order in which they were
\* fetched, the one created earlier first
C16_Witness ==
    /\ Len(Posted) = 2
    /\ Posted[1] > Posted[2]
    /\ candidate(Posted[1]).createdAt < candidate(Posted[2]).createdAt

-----------------------------------------------------------------------------
(* C17.  When every CRM fetch and every POST calls back eventually, and     *)
(* once, every call of sync calls its callback eventually and exactly once, *)
(* with an error or with a checkpoint and never with both, whatever the     *)
(* fetches and the POSTs answer; also when the author fetch and the subject *)
(* fetch of one recording both fail.                                        *)
C17_CallsBackOnce ==
    /\ [](Len(cbLog) <= 1)
    /\ [](\A k \in DOMAIN cbLog :
              \/ Len(cbLog[k]) = 1 /\ cbLog[k][1] # null
              \/ Len(cbLog[k]) = 2 /\ cbLog[k][1] = null /\ cbLog[k][2] \in Times)
    /\ (pc # "idle") ~> (pc = "idle" /\ Len(cbLog) = 1)

\* sync has called back once, after the author fetch and the subject fetch
\* of one recording have both failed
C17_Witness ==
    /\ Returned
    /\ Len(cbLog) = 1
    /\ \E i \in DOMAIN pipes :
        /\ pipes[i].author = "error"
        /\ pipes[i].subject = "error"

-----------------------------------------------------------------------------
(* C18.  As stated: over any sequence of serial cycles in which the caller  *)
(* hands the last returned checkpoint to the next cycle, and keeps the old  *)
(* one after an error, no recording has a webhook POSTed for it more than   *)
(* once.                                                                    *)
C18_AtMostOnce ==
    \A a, b \in DOMAIN posts : a # b => posts[a].id # posts[b].id

(* C18, amended.  Over any such sequence of cycles a recording is POSTed at *)
(* most once within a cycle, and a recording POSTed in a cycle that called  *)
(* back without an error is not POSTed again by any later cycle.  A cycle   *)
(* that calls back with an error keeps the checkpoint, and the next cycle   *)
(* POSTs the recordings that cycle had POSTed once more.                    *)
C18_OnceAfterSuccess ==
    \A a, b \in DOMAIN posts :
        a < b /\ posts[a].id = posts[b].id =>
            /\ posts[a].cycle < posts[b].cycle
            /\ posts[a].cycle \notin prev.okCycles

\* a recording POSTed by a cycle that called back without an error was
\* edited and fetched again by the next cycle, which has called back
C18_Witness ==
    /\ Returned
    /\ cycles - 1 \in prev.okCycles
    /\ \E k \in DOMAIN data :
        /\ data[k].updatedAt > lastCheck
        /\ \E a \in DOMAIN posts :
            posts[a].cycle = cycles - 1 /\ posts[a].id = data[k].id

=============================================================================
